---------------------------- MODULE Spec2Model ----------------------------
(***************************************************************************)
(* Document ingestion and retrieval of the financial RAG system.           *)
(*                                                                         *)
(*   - LocalPGVectorRAG.embed_document (RAGLocal/rag_system.py): chunks of *)
(*     one PDF are deduplicated by content hash, embedded and inserted     *)
(*     into the table financial_documents inside one database transaction. *)
(*   - EnhancedLocalPDFRAGPipeline.store_document_and_chunks               *)
(*     (RAGLocal/rag_pipeline.py): a document row and its chunk rows are   *)
(*     inserted into the tables documents and document_chunks.             *)
(*   - LocalPGVectorRAG.search_documents, FinancialAgent._get_rag_context  *)
(*     and the /query endpoint: similarity search over financial_documents.*)
(*   - FinancialAgent.process_query and get_document_stats, and the        *)
(*     connections the retrieval calls take from the pool.                 *)
(*   - _chunk_text (word windows) and chunk_text (paragraphs), the HyDE    *)
(*     translator and its cache, text extraction with OCR fallback.        *)
(*   - Orchestrator (src/core/orchestrator.py): the graph planner ->       *)
(*     prepare_data -> route -> execute -> next over the steps of a plan.  *)
(*                                                                         *)
(* The database is PostgreSQL at its default isolation level (READ         *)
(* COMMITTED): a statement sees the rows committed before it started and   *)
(* the rows its own transaction wrote; an error inside a transaction       *)
(* aborts it, every later statement of it fails, and COMMIT then rolls     *)
(* back without raising.                                                   *)
(***************************************************************************)
EXTENDS Integers, Sequences, FiniteSets, TLC

\* ------------------------------------------------------------------ bounds

\* Ingestion calls (embed_document and store_document_and_chunks) per run.
MaxCalls == 2

\* Largest LIMIT a search is called with.
MaxLimit == 3

\* Most rows of financial_documents a search runs over.
MaxRows == 3

\* Longest text given to _chunk_text, in words, besides the long examples.
MaxWords == 12

\* Calls of HyDEQueryTranslator.generate_hypothetical_document per run.
MaxExpands == 2

\* Most pages of a PDF handed to the extractor and the classifiers.
MaxPages == 4

\* Most paragraphs of a text given to chunk_text.
MaxParagraphs == 3

\* Most steps of a plan the planner returns.
MaxPlanSteps == 3

\* ------------------------------------------------------------- the inputs

\* Workers running embed_document concurrently, each on its own connection.
Workers == {"w1", "w2"}

\* The PDFs offered for ingestion: the chunks _chunk_text yields for the
\* text _extract_text_from_pdf returns, and the caller's DocumentMetadata.
\* d0 has no extractable text; d1 and d2 share both chunks, in opposite
\* order; d3 repeats one chunk and shares another with d1 and d2.
DocIds == {"d0", "d1", "d2", "d3"}

DocChunks(d) ==
    CASE d = "d0" -> << >>
      [] d = "d1" -> <<"A", "B">>
      [] d = "d2" -> <<"B", "A">>
      [] d = "d3" -> <<"C", "A", "C">>

DocYear(d) ==
    CASE d = "d0" -> 2021
      [] d = "d1" -> 2022
      [] d = "d2" -> 2023
      [] d = "d3" -> 2023

DocType(d) == IF d \in {"d1", "d3"} THEN "annual" ELSE "transcript"

\* DocumentMetadata of the call.
DocumentMetadata(d) ==
    [pdf_name |-> d, pdf_link |-> <<"link", d>>, year |-> DocYear(d),
     doc_type |-> DocType(d)]

\* The embedding model: a deterministic map from a text to a vector.  All
\* vectors have the same length, so that the cosine of two of them is their
\* dot product over the squared length.
encode(text) ==
    CASE text = "A"  -> <<5, 0>>
      [] text = "B"  -> <<3, 4>>
      [] text = "C"  -> <<3, -4>>
      [] text = "q1" -> <<5, 0>>
      [] text = "q2" -> <<0, 5>>
      [] text = "h1" -> <<4, 3>>
      [] text = "h2" -> <<-3, 4>>

\* sha256 of the chunk text: one digest per text.
_generate_content_hash(content) == <<"sha256", content>>

\* ---------------------------------------------------------------- state

VARIABLES
    rows,            \* financial_documents: the committed rows, oldest first
    pc,              \* per worker: where embed_document stands
    doc,             \* per worker: the PDF of the current call
    chunk_index,     \* per worker: loop variable (1-based position)
    pending,         \* per worker: rows inserted by the open transaction
    embedded_count,  \* per worker: embedded_count
    aborted,         \* per worker: the open transaction is in the failed state
    result,          \* per worker: value returned by the call (when pc is "done")
    errors,          \* per worker: kinds of exception the call has caught
    persisted,       \* per worker: rows the last call's commit made durable
    rows_before,     \* per worker: financial_documents when the call started
    calls,           \* ingestion calls started so far
    documents,       \* table documents: the committed rows, oldest first
    document_chunks, \* table document_chunks: the committed rows, oldest first
    store_pc,        \* where store_document_and_chunks stands
    store_args,      \* its arguments: pdf_path, chunks, embeddings
    store_txn,       \* rows inserted by its open transaction
    store_result,    \* what the call handed to its caller (when store_pc is "done")
    store_before,    \* the two tables as they were when the call started
    next_doc_id,     \* the sequence behind documents.id
    search_call,     \* the retrieval call: the operation and its arguments
    search_pc,       \* "called" until the call has ended, then "done"
    search_text,     \* the text whose embedding was searched for
    search_results,  \* the result list it returned
    search_outcome,  \* "returned", or "raised" when an exception left it
    search_error,    \* what failed inside it: "none", "encode" or "store"
    search_hyde,     \* how its HyDE text came about
    rag_context,     \* what _get_rag_context made of the results
    response,        \* what process_query or get_document_stats returned
    checked_out,     \* connections the retrieval calls hold of the pool
    source_text,     \* _chunk_text: the text, as its number of words
    chunk_config,    \* _chunk_text: self.chunk_config
    chunk_pc,        \* _chunk_text: "called" until it has ended, then "done"
    chunk_outcome,   \* _chunk_text: "returned", or "raised"
    text_chunks,     \* _chunk_text: the list it returned
    indexed,         \* enumerate(chunks), as the loop of embed_document sees it
    hyde_config,     \* HyDEQueryTranslator: self.config
    HAS_OPENAI,      \* rag_pipeline: whether "import openai" succeeded
    cache,           \* HyDEQueryTranslator: self.cache, cache_key -> text
    hyde_log,        \* HyDEQueryTranslator: the calls made, oldest first
    pdf_file,        \* extraction: the PDF file
    ocr_env,         \* extraction: the OCR configuration and packages
    extract_call,    \* extraction: the function called
    extract_pc,      \* extraction: "called" until it has ended, then "done"
    extract_result,  \* extraction: what the call gave back
    paragraph_text,  \* chunk_text: text.split("\n\n"), each paragraph a string
    paragraph_config,\* chunk_text: max_chunk and overlap
    paragraph_pc,    \* chunk_text: "called" until it has ended, then "done"
    paragraph_chunks,\* chunk_text: the list it returned
    flushes,         \* chunk_text: per flush, the buffer flushed and the next
    max_steps,       \* orchestrator: self.config.max_steps
    graph_node,      \* orchestrator: the node to run next, "END" or "raised"
    graph_error,     \* orchestrator: the exception that ended the run
    plan,            \* orchestrator: state["plan"].steps, as their agents
    step_index,      \* orchestrator: state["step_index"]
    selected_agent,  \* orchestrator: state["selected_agent"], "" for None
    user_data,       \* orchestrator: whether profile and transactions are truthy
    executed         \* orchestrator: the agents run, with the step_index then

storeVars == <<documents, document_chunks, store_pc, store_args, store_txn,
               store_result, store_before, next_doc_id>>

searchVars == <<search_call, search_pc, search_text, search_results,
                search_outcome, search_error, search_hyde, rag_context,
                response, checked_out>>

ingestVars == <<rows, pc, doc, chunk_index, pending, embedded_count, aborted,
                result, errors, persisted, rows_before>>

chunkVars == <<source_text, chunk_config, chunk_pc, chunk_outcome, text_chunks,
              indexed>>

hydeVars == <<hyde_config, HAS_OPENAI, cache, hyde_log>>

extractVars == <<pdf_file, ocr_env, extract_call, extract_pc, extract_result>>

paragraphVars == <<paragraph_text, paragraph_config, paragraph_pc,
                   paragraph_chunks, flushes>>

graphVars == <<max_steps, graph_node, graph_error, plan, step_index,
               selected_agent, user_data, executed>>

\* What the actions of embed_document, of store_document_and_chunks, of the
\* retrieval calls, of _chunk_text, of the HyDE translator and of the text
\* extraction leave alone.
notIngest == <<storeVars, searchVars, chunkVars, hydeVars, extractVars,
      paragraphVars, graphVars>>
notStore == <<ingestVars, searchVars, chunkVars, hydeVars, extractVars,
      paragraphVars, graphVars>>
notSearch == <<ingestVars, storeVars, calls, chunkVars, hydeVars, extractVars,
      paragraphVars, graphVars>>
notChunk == <<ingestVars, storeVars, searchVars, calls, hydeVars, extractVars,
      paragraphVars, graphVars>>
notHyDE == <<ingestVars, storeVars, searchVars, calls, chunkVars, extractVars,
      paragraphVars, graphVars>>
notExtract == <<ingestVars, storeVars, searchVars, calls, chunkVars, hydeVars,
      paragraphVars, graphVars>>
notParagraph == <<ingestVars, storeVars, searchVars, calls, chunkVars, hydeVars,
      extractVars, graphVars>>
notGraph == <<ingestVars, storeVars, searchVars, calls, chunkVars, hydeVars,
      extractVars, paragraphVars>>

vars == <<ingestVars, storeVars, searchVars, calls, chunkVars, hydeVars,
          extractVars, paragraphVars, graphVars>>

\* ------------------------------------------------- embed_document: helpers

\* Whether a table holds a row with this content hash.
HashIn(h, tbl) == \E i \in DOMAIN tbl : tbl[i].content_hash = h

\* "SELECT id FROM financial_documents WHERE content_hash = %s" followed by
\* cursor.fetchone(): the committed rows and the transaction's own inserts.
SelectByHash(h, committed, own) == HashIn(h, committed) \/ HashIn(h, own)

\* The table without its UNIQUE(content_hash) constraint.
UniqueConflict_NoConstraint(h, tbl) == FALSE

\* UNIQUE(content_hash): an insert of h conflicts with a row of tbl.
UniqueConflict(h, tbl) == HashIn(h, tbl)

\* Whether _extract_text_from_pdf reports that OCR produced the text.
ocr_used(d) == d = "d3"

\* The tuple of the INSERT statement.  chunk_index is enumerate's 0-based
\* index; i is the 1-based position in the chunk sequence.
InsertedRow(d, i) ==
    [content       |-> DocChunks(d)[i],
     embedding     |-> encode(DocChunks(d)[i]),
     pdf_name      |-> DocumentMetadata(d).pdf_name,
     pdf_link      |-> DocumentMetadata(d).pdf_link,
     year          |-> DocumentMetadata(d).year,
     doc_type      |-> DocumentMetadata(d).doc_type,
     chunk_index   |-> i - 1,
     content_hash  |-> _generate_content_hash(DocChunks(d)[i]),
     ocr_processed |-> ocr_used(d)]

\* conn.commit() of a transaction that is not in the failed state.
CommitRows(tbl, inserted) == tbl \o inserted

\* A rollback that undoes the inserts by deleting as many of the newest
\* rows of the table, committed or not.
RollbackRows_DeleteNewest(tbl, inserted) ==
    SubSeq(tbl, 1, Len(tbl) - Len(inserted))

\* conn.rollback(), and COMMIT of a failed transaction: the inserts of the
\* transaction are discarded.
RollbackRows(tbl, inserted) == tbl

\* The hash of the chunk worker w is processing.
CurrentHash(w) == _generate_content_hash(DocChunks(doc[w])[chunk_index[w]])

\* The for loop moves to the next chunk, or falls through to conn.commit().
LoopNext(w) ==
    IF chunk_index[w] < Len(DocChunks(doc[w]))
    THEN /\ chunk_index' = [chunk_index EXCEPT ![w] = @ + 1]
         /\ pc' = [pc EXCEPT ![w] = "select"]
    ELSE /\ chunk_index' = chunk_index
         /\ pc' = [pc EXCEPT ![w] = "commit"]

\* "except Exception as e: ... continue" of the loop body.
CatchAndContinue(w, kind) ==
    /\ errors' = [errors EXCEPT ![w] = @ \cup {kind}]
    /\ LoopNext(w)

\* Worker w waits in its INSERT for the transaction of worker v, which holds
\* an uncommitted row with the same content hash.
WaitsFor(w, v) ==
    /\ w # v
    /\ pc[w] = "insert"
    /\ ~aborted[w]
    /\ UniqueConflict(CurrentHash(w), pending[v])

\* ------------------------------------------------- embed_document: actions

\* embed_document is entered: text extraction, chunking and getconn().
\*  - _extract_text_from_pdf or getconn raises: the outer except returns False
\*    (conn is still None, nothing to roll back);
\*  - no text or no chunks: return False;
\*  - otherwise the loop over the chunks starts on a fresh transaction.
embed_document(w, d) ==
    /\ pc[w] \in {"idle", "done"}
    /\ calls < MaxCalls
    /\ calls' = calls + 1
    /\ doc' = [doc EXCEPT ![w] = d]
    /\ chunk_index' = [chunk_index EXCEPT ![w] = 1]
    /\ pending' = [pending EXCEPT ![w] = << >>]
    /\ embedded_count' = [embedded_count EXCEPT ![w] = 0]
    /\ aborted' = [aborted EXCEPT ![w] = FALSE]
    /\ persisted' = [persisted EXCEPT ![w] = << >>]
    /\ rows_before' = [rows_before EXCEPT ![w] = rows]
    /\ \/ /\ errors' = [errors EXCEPT ![w] = {"setup"}]
          /\ result' = [result EXCEPT ![w] = FALSE]
          /\ pc' = [pc EXCEPT ![w] = "done"]
       \/ /\ DocChunks(d) = << >>
          /\ errors' = [errors EXCEPT ![w] = {}]
          /\ result' = [result EXCEPT ![w] = FALSE]
          /\ pc' = [pc EXCEPT ![w] = "done"]
       \/ /\ DocChunks(d) # << >>
          /\ errors' = [errors EXCEPT ![w] = {}]
          /\ result' = [result EXCEPT ![w] = FALSE]
          /\ pc' = [pc EXCEPT ![w] = "select"]
    /\ UNCHANGED rows
    /\ UNCHANGED notIngest

\* The dedup gate of one chunk: SELECT by content hash.
\*  - in a failed transaction the statement raises and the chunk is skipped;
\*  - a hit skips the chunk ("continue");
\*  - a miss goes on to the embedding.
select_existing(w) ==
    /\ pc[w] = "select"
    /\ \/ /\ aborted[w]
          /\ CatchAndContinue(w, "failed_transaction")
       \/ /\ ~aborted[w]
          /\ SelectByHash(CurrentHash(w), rows, pending[w])
          /\ LoopNext(w)
          /\ UNCHANGED errors
       \/ /\ ~aborted[w]
          /\ ~SelectByHash(CurrentHash(w), rows, pending[w])
          /\ pc' = [pc EXCEPT ![w] = "encode"]
          /\ UNCHANGED <<chunk_index, errors>>
    /\ UNCHANGED <<rows, doc, pending, embedded_count, aborted, result,
                   persisted, rows_before, calls>>
    /\ UNCHANGED notIngest

\* self.embedding_model.encode(chunk): returns the vector, or raises (the
\* chunk is skipped, the transaction is untouched).
generate_embedding(w) ==
    /\ pc[w] = "encode"
    /\ \/ /\ pc' = [pc EXCEPT ![w] = "insert"]
          /\ UNCHANGED <<chunk_index, errors>>
       \/ CatchAndContinue(w, "encode")
    /\ UNCHANGED <<rows, doc, pending, embedded_count, aborted, result,
                   persisted, rows_before, calls>>
    /\ UNCHANGED notIngest

\* The INSERT of one chunk.
\*  - a committed row, or a row of the transaction itself, holds the hash:
\*    UniqueViolation; the transaction fails and loses its inserts, the
\*    except clause skips the chunk;
\*  - another open transaction holds the hash: the statement waits (no step);
\*  - otherwise the row joins the transaction and embedded_count grows.
insert_chunk(w) ==
    /\ pc[w] = "insert"
    /\ \A v \in Workers : ~WaitsFor(w, v)
    /\ \/ /\ UniqueConflict(CurrentHash(w), rows \o pending[w])
          /\ aborted' = [aborted EXCEPT ![w] = TRUE]
          /\ pending' = [pending EXCEPT ![w] = RollbackRows(<< >>, @)]
          /\ CatchAndContinue(w, "unique_violation")
          /\ UNCHANGED embedded_count
       \/ /\ ~UniqueConflict(CurrentHash(w), rows \o pending[w])
          /\ pending' = [pending EXCEPT
                            ![w] = Append(@, InsertedRow(doc[w], chunk_index[w]))]
          /\ embedded_count' = [embedded_count EXCEPT ![w] = @ + 1]
          /\ LoopNext(w)
          /\ UNCHANGED <<aborted, errors>>
    /\ UNCHANGED <<rows, doc, result, persisted, rows_before, calls>>
    /\ UNCHANGED notIngest

\* Two INSERTs wait for each other: PostgreSQL's deadlock detector fails one
\* of the two statements; its transaction fails and loses its inserts.
deadlock_detected(w) ==
    /\ \E v \in Workers : WaitsFor(w, v) /\ WaitsFor(v, w)
    /\ aborted' = [aborted EXCEPT ![w] = TRUE]
    /\ pending' = [pending EXCEPT ![w] = RollbackRows(<< >>, @)]
    /\ CatchAndContinue(w, "deadlock")
    /\ UNCHANGED <<rows, doc, embedded_count, result, persisted, rows_before, calls>>
    /\ UNCHANGED notIngest

\* conn.commit() and the return.
\*  - the transaction is intact: its inserts become durable;
\*  - the transaction has failed: COMMIT rolls back and does not raise;
\*  - commit raises (connection lost): the outer except rolls back and
\*    returns False.
\* The first two return embedded_count > 0.
commit_document(w) ==
    /\ pc[w] = "commit"
    /\ pc' = [pc EXCEPT ![w] = "done"]
    /\ pending' = [pending EXCEPT ![w] = << >>]
    /\ \/ /\ ~aborted[w]
          /\ rows' = CommitRows(rows, pending[w])
          /\ persisted' = [persisted EXCEPT ![w] = pending[w]]
          /\ result' = [result EXCEPT ![w] = embedded_count[w] > 0]
          /\ UNCHANGED errors
       \/ /\ aborted[w]
          /\ rows' = RollbackRows(rows, pending[w])
          /\ result' = [result EXCEPT ![w] = embedded_count[w] > 0]
          /\ UNCHANGED <<persisted, errors>>
       \/ /\ rows' = RollbackRows(rows, pending[w])
          /\ result' = [result EXCEPT ![w] = FALSE]
          /\ errors' = [errors EXCEPT ![w] = @ \cup {"commit"}]
          /\ UNCHANGED persisted
    /\ UNCHANGED <<doc, chunk_index, embedded_count, aborted, rows_before, calls>>
    /\ UNCHANGED notIngest

\* -------------------------------------- store_document_and_chunks: helpers

\* generate_embeddings_batch(chunks): one vector per chunk.
generate_embeddings_batch(chunks) == [i \in DOMAIN chunks |-> encode(chunks[i])]

\* The embedding lists a caller may pass with the chunks of a PDF: the batch
\* of its chunks, that batch without its last vector, and with one more.
EmbeddingLists(chunks) ==
    {generate_embeddings_batch(chunks),
     Append(generate_embeddings_batch(chunks), encode("A"))}
    \cup (IF chunks = << >> THEN {}
          ELSE {SubSeq(generate_embeddings_batch(chunks), 1, Len(chunks) - 1)})

\* The length check left out: zip() then pairs up the shorter length.
LengthMismatch_Unchecked(chunks, embeddings) == FALSE

\* "if len(chunks) != len(embeddings)".
LengthMismatch(chunks, embeddings) == Len(chunks) # Len(embeddings)

\* get_file_hash(): md5 of the file's bytes.
get_file_hash(pdf_path) == <<"md5", pdf_path>>

\* The row of "INSERT INTO documents ... RETURNING id".
DocumentRow(id, pdf_path) ==
    [id |-> id, filename |-> pdf_path, file_path |-> pdf_path,
     file_hash |-> get_file_hash(pdf_path)]

\* chunk_data: one tuple per pair of zip(chunks, embeddings), in order
\* (chunk_metadata, word_count and char_count are functions of i and chunk).
ChunkData(doc_id, chunks, embeddings) ==
    [i \in 1..(IF Len(chunks) < Len(embeddings) THEN Len(chunks)
                                                ELSE Len(embeddings)) |->
        [document_id     |-> doc_id,
         chunk_index     |-> i - 1,
         content         |-> chunks[i],
         cleaned_content |-> chunks[i],
         embedding       |-> embeddings[i]]]

NoTxn == [documents |-> << >>, chunks |-> << >>]

\* What a call hands to its caller: None, a document id, or an exception.
ReturnsNone == [outcome |-> "None", doc_id |-> 0]
ReturnsDocId(id) == [outcome |-> "doc_id", doc_id |-> id]
Raises == [outcome |-> "raised", doc_id |-> 0]

\* "except Exception: conn.rollback(); return None".
StoreFails ==
    /\ documents' = RollbackRows(documents, store_txn.documents)
    /\ document_chunks' = RollbackRows(document_chunks, store_txn.chunks)
    /\ store_txn' = NoTxn
    /\ store_result' = ReturnsNone
    /\ store_pc' = "done"

\* -------------------------------------- store_document_and_chunks: actions

\* store_document_and_chunks is entered.
\*  - the lengths differ: return None before any connection is taken;
\*  - get_connection() raises: the exception leaves the function;
\*  - otherwise the transaction starts.
store_document_and_chunks(pdf_path, embeddings) ==
    /\ store_pc \in {"idle", "done"}
    /\ calls < MaxCalls
    /\ calls' = calls + 1
    /\ store_args' = [pdf_path |-> pdf_path, chunks |-> DocChunks(pdf_path),
                      embeddings |-> embeddings]
    /\ store_before' = [documents |-> documents, chunks |-> document_chunks]
    /\ store_txn' = NoTxn
    /\ \/ /\ LengthMismatch(DocChunks(pdf_path), embeddings)
          /\ store_result' = ReturnsNone
          /\ store_pc' = "done"
       \/ /\ ~LengthMismatch(DocChunks(pdf_path), embeddings)
          /\ store_result' = Raises
          /\ store_pc' = "done"
       \/ /\ ~LengthMismatch(DocChunks(pdf_path), embeddings)
          /\ store_result' = ReturnsNone
          /\ store_pc' = "insert_document"
    /\ UNCHANGED <<documents, document_chunks, next_doc_id>>
    /\ UNCHANGED notStore

\* os.path.getsize, get_file_hash and the INSERT into documents: the row
\* joins the transaction and takes the next id, or one of them raises.
insert_document ==
    /\ store_pc = "insert_document"
    /\ \/ /\ store_txn' = [store_txn EXCEPT
                !.documents = <<DocumentRow(next_doc_id, store_args.pdf_path)>>]
          /\ next_doc_id' = next_doc_id + 1
          /\ store_pc' = "insert_chunks"
          /\ UNCHANGED <<documents, document_chunks, store_result>>
       \/ /\ StoreFails
          /\ UNCHANGED next_doc_id
    /\ UNCHANGED <<store_args, store_before, calls>>
    /\ UNCHANGED notStore

\* cursor.executemany of the chunk rows: all rows join the transaction, or
\* one of the inserts raises.
insert_chunks ==
    /\ store_pc = "insert_chunks"
    /\ \/ /\ store_txn' = [store_txn EXCEPT
                !.chunks = ChunkData(store_txn.documents[1].id,
                                     store_args.chunks, store_args.embeddings)]
          /\ store_pc' = "commit"
          /\ UNCHANGED <<documents, document_chunks, store_result>>
       \/ StoreFails
    /\ UNCHANGED <<store_args, store_before, next_doc_id, calls>>
    /\ UNCHANGED notStore

\* conn.commit() and "return doc_id", or commit raises.
commit_store ==
    /\ store_pc = "commit"
    /\ \/ /\ documents' = CommitRows(documents, store_txn.documents)
          /\ document_chunks' = CommitRows(document_chunks, store_txn.chunks)
          /\ store_result' = ReturnsDocId(store_txn.documents[1].id)
          /\ store_txn' = NoTxn
          /\ store_pc' = "done"
       \/ StoreFails
    /\ UNCHANGED <<store_args, store_before, next_doc_id, calls>>
    /\ UNCHANGED notStore

InitStore ==
    /\ documents = << >>
    /\ document_chunks = << >>
    /\ store_pc = "idle"
    /\ store_args = [pdf_path |-> "d0", chunks |-> << >>, embeddings |-> << >>]
    /\ store_txn = NoTxn
    /\ store_result = ReturnsNone
    /\ store_before = [documents |-> << >>, chunks |-> << >>]
    /\ next_doc_id = 1

InitWorkers ==
    /\ pc = [w \in Workers |-> "idle"]
    /\ doc = [w \in Workers |-> "d0"]
    /\ chunk_index = [w \in Workers |-> 1]
    /\ pending = [w \in Workers |-> << >>]
    /\ embedded_count = [w \in Workers |-> 0]
    /\ aborted = [w \in Workers |-> FALSE]
    /\ result = [w \in Workers |-> FALSE]
    /\ errors = [w \in Workers |-> {}]
    /\ persisted = [w \in Workers |-> << >>]
    /\ rows_before = [w \in Workers |-> << >>]
    /\ calls = 0

InitIngest == rows = << >> /\ InitWorkers

\* ------------------------------------------------------------ _chunk_text

\* ChunkConfig.  overlap_ratio is the fraction <<numerator, denominator>>;
\* the ratios used are those whose product with chunk_size the float
\* multiplication gives exactly.
ChunkConfig(chunk_size, overlap_ratio, min_chunk_size) ==
    [chunk_size |-> chunk_size, overlap_ratio |-> overlap_ratio,
     min_chunk_size |-> min_chunk_size]

\* The defaults of the dataclass: 500 words, 20% overlap, 50 words at least.
DefaultChunkConfig == ChunkConfig(500, <<1, 5>>, 50)

\* An overlap of nothing instead of int(chunk_size * overlap_ratio).
overlap_size_None(config) == 0

\* overlap_size = int(chunk_size * overlap_ratio)
overlap_size(config) ==
    (config.chunk_size * config.overlap_ratio[1]) \div config.overlap_ratio[2]

\* Windows side by side: a step of chunk_size.
WindowStep_NoOverlap(config) == config.chunk_size

\* The step of range(0, len(words), chunk_size - overlap_size).
WindowStep(config) == config.chunk_size - overlap_size(config)

\* A chunk: the words it holds, as the offset of its first word in
\* text.split() and their number.  raw tells the text itself (whitespace as
\* in the source) from ' '.join(chunk_words).
Chunk(start, words, raw) == [start |-> start, words |-> words, raw |-> raw]

\* words[i:i + chunk_size] of a list of n words, for i < n.
chunk_words(n, i, config) ==
    IF i + config.chunk_size <= n THEN config.chunk_size ELSE n - i

\* The for loop from window start i on: the window is appended when it has
\* min_chunk_size words, and the loop breaks when the window reaches the
\* end of the words.
RECURSIVE WordWindows(_, _, _)
WordWindows(n, i, config) ==
    IF i >= n THEN << >>
    ELSE LET emitted ==
                 IF chunk_words(n, i, config) >= config.min_chunk_size
                 THEN <<Chunk(i, chunk_words(n, i, config), FALSE)>>
                 ELSE << >>
         IN  IF i + config.chunk_size >= n
             THEN emitted
             ELSE emitted \o WordWindows(n, i + WindowStep(config), config)

Returned(list) == [outcome |-> "returned", chunks |-> list]
RaisedValueError == [outcome |-> "raised", chunks |-> << >>]

\* _chunk_text(text) under a chunk_config, for a text of n words:
\*  - no word: [];
\*  - at most chunk_size words: [text];
\*  - a step of 0: range() raises ValueError; a negative step: no window;
\*  - otherwise the windows.
_chunk_text(n, config) ==
    IF n = 0 THEN Returned(<< >>)
    ELSE IF n <= config.chunk_size THEN Returned(<<Chunk(0, n, TRUE)>>)
    ELSE IF WindowStep(config) = 0 THEN RaisedValueError
    ELSE IF WindowStep(config) < 0 THEN Returned(<< >>)
    ELSE Returned(WordWindows(n, 0, config))

\* An enumeration that counts from 1.
enumerate_FromOne(list) ==
    [j \in DOMAIN list |-> [i |-> j, chunk |-> list[j]]]

\* enumerate(chunks): the pairs (i, chunk) of the loop of embed_document; i
\* is the chunk_index of the INSERT.
enumerate(list) ==
    [j \in DOMAIN list |-> [i |-> j - 1, chunk |-> list[j]]]

\* ------------------------------------------------------ _chunk_text: calls

\* The texts chunked, as numbers of words: the short ones, and texts of
\* more than one default window.
ShortTexts == 0..MaxWords
LongTexts == {501, 900, 901, 1200, 1301, 1700}

ChunkConfigs ==
    {DefaultChunkConfig,
     ChunkConfig(5, <<1, 5>>, 2),
     ChunkConfig(4, <<1, 2>>, 3),
     ChunkConfig(4, <<0, 1>>, 3),
     ChunkConfig(6, <<1, 2>>, 1),
     ChunkConfig(4, <<1, 1>>, 1)}

\* The calls made: a short text under any configuration, a long one under
\* the default configuration.
ChunkCalls ==
    (ShortTexts \X ChunkConfigs) \cup (LongTexts \X {DefaultChunkConfig})

\* "chunks = self._chunk_text(text)" and "for i, chunk in enumerate(chunks)"
\* of embed_document.
chunk_document ==
    /\ chunk_pc = "called"
    /\ chunk_outcome' = _chunk_text(source_text, chunk_config).outcome
    /\ text_chunks' = _chunk_text(source_text, chunk_config).chunks
    /\ indexed' = enumerate(_chunk_text(source_text, chunk_config).chunks)
    /\ chunk_pc' = "done"
    /\ UNCHANGED <<source_text, chunk_config>>
    /\ UNCHANGED notChunk

\* No call of _chunk_text under way.
InitChunker ==
    /\ source_text = 0
    /\ chunk_config = DefaultChunkConfig
    /\ chunk_pc = "done"
    /\ chunk_outcome = "returned"
    /\ text_chunks = << >>
    /\ indexed = << >>

\* ----------------------------------------------------- HyDEQueryTranslator

\* HyDEConfig (max_tokens and temperature only shape the provider's answer).
HyDEConfig(enabled, backend, model_name, fallback_to_original, caching) ==
    [enabled |-> enabled, backend |-> backend, model_name |-> model_name,
     fallback_to_original |-> fallback_to_original,
     cache_responses |-> caching]

\* Strings are sequences of characters.  The queries and the model names
\* include ones that contain the "_" of the cache key.
HyDEQueries == {<<"q">>, <<"q", "_", "m">>}
ModelNames == {<<"m">>, <<"m", "_", "m">>}

\* What the completion provider can answer (the stripped message content).
ProviderTexts == {<<"h", "1">>, <<"h", "2">>}

\* hashlib.md5(f"{query}_{model_name}".encode()).hexdigest(): one digest per
\* formatted string.
cache_key(query, model_name) == <<"md5", query \o <<"_">> \o model_name>>

\* The early return: HyDE is off, the backend is not openai, or the openai
\* package is missing.
HyDEUnavailable(config, has_openai) ==
    ~config.enabled \/ config.backend # "openai" \/ ~has_openai

\* A cache that is never hit.
CacheHit_Never(config, key, dict) == FALSE

\* "self.config.cache_responses and cache_key in self.cache"
CacheHit(config, key, dict) == config.cache_responses /\ key \in DOMAIN dict

\* self.cache[cache_key] = text
CachePut(dict, key, value) ==
    [k \in DOMAIN dict \cup {key} |-> IF k = key THEN value ELSE dict[k]]

\* One entry of the log: the query, the model_name of the configuration at
\* the call, whether the provider was invoked and how that went
\* ("not_called", "cached" for a cache hit, "ok", "failed"), and what the
\* call gave back.
HyDECall(query, model_name, provider, outcome, value) ==
    [query |-> query, model |-> model_name, provider |-> provider,
     outcome |-> outcome, text |-> value]

\* A handler that lets the provider's exception through whatever the
\* configuration says.
OnProviderFailure_Raise(query, config) ==
    HyDECall(query, config.model_name, "failed", "raised", << >>)

\* "except Exception": the query itself when fallback_to_original is set,
\* else the exception is raised again.
OnProviderFailure(query, config) ==
    IF config.fallback_to_original
    THEN HyDECall(query, config.model_name, "failed", "returned", query)
    ELSE HyDECall(query, config.model_name, "failed", "raised", << >>)

\* HyDEQueryTranslator.generate_hypothetical_document(query).
generate_hypothetical_document(query) ==
    /\ Len(hyde_log) < MaxExpands
    /\ LET key == cache_key(query, hyde_config.model_name)
       IN  IF HyDEUnavailable(hyde_config, HAS_OPENAI)
           THEN /\ hyde_log' = Append(hyde_log,
                        HyDECall(query, hyde_config.model_name, "not_called",
                                 "returned", query))
                /\ UNCHANGED cache
           ELSE IF CacheHit(hyde_config, key, cache)
           THEN /\ hyde_log' = Append(hyde_log,
                        HyDECall(query, hyde_config.model_name, "cached",
                                 "returned", cache[key]))
                /\ UNCHANGED cache
           ELSE \/ \E answer \in ProviderTexts :
                      /\ hyde_log' = Append(hyde_log,
                              HyDECall(query, hyde_config.model_name, "ok",
                                       "returned", answer))
                      /\ cache' = IF hyde_config.cache_responses
                                  THEN CachePut(cache, key, answer)
                                  ELSE cache
                \/ /\ hyde_log' = Append(hyde_log,
                           OnProviderFailure(query, hyde_config))
                   /\ UNCHANGED cache
    /\ UNCHANGED <<hyde_config, HAS_OPENAI>>
    /\ UNCHANGED notHyDE

\* pipeline.hyde_config.model_name = model_name, between two calls: the
\* translator keeps the HyDEConfig object it was built with (self.config =
\* config, the pipeline's self.hyde_config) and reads model_name from it at
\* every call, for the request and for the cache key; its cache stays.
set_model_name(model_name) ==
    /\ Len(hyde_log) < MaxExpands
    /\ hyde_log # << >>
    /\ model_name # hyde_config.model_name
    /\ hyde_config' = [hyde_config EXCEPT !.model_name = model_name]
    /\ UNCHANGED <<HAS_OPENAI, cache, hyde_log>>
    /\ UNCHANGED notHyDE

HyDEConfigs ==
    {HyDEConfig(e, b, m, f, c) :
        e \in BOOLEAN, b \in {"openai", "local"}, m \in ModelNames,
        f \in BOOLEAN, c \in BOOLEAN}

\* The translator of a pipeline built with the default HyDEConfig, before
\* its first call.
InitHyDE ==
    /\ hyde_config = HyDEConfig(TRUE, "openai", <<"m">>, TRUE, TRUE)
    /\ HAS_OPENAI = TRUE
    /\ cache = [k \in {} |-> << >>]
    /\ hyde_log = << >>

\* -------------------------------------------------------- text extraction

\* The page kinds of the PDFs: the length of page.get_text().strip() and
\* the number of images of page.get_images().
PageChars == {0, 60, 150}
PageImages == {0, 1}
Pages == [chars : PageChars, images : PageImages]

\* A PDF: whether the file exists, whether fitz opens it, and its pages.
Pdf(exists, opens, pages) ==
    [exists |-> exists, opens |-> opens, pages |-> pages]

\* The PDFs handed to the extractor and the classifiers: a missing file, a
\* file fitz cannot open, and the documents of up to MaxPages pages.
Pdfs ==
    {Pdf(FALSE, FALSE, << >>), Pdf(TRUE, FALSE, << >>)}
    \cup UNION {{Pdf(TRUE, TRUE, p) : p \in [1..n -> Pages]} : n \in 0..MaxPages}

\* OCRConfig.use_ocr and use_ocrmypdf, and the module flags
\* OCRMYPDF_AVAILABLE and OCR_AVAILABLE.
OcrEnvs ==
    [use_ocr : BOOLEAN, use_ocrmypdf : BOOLEAN,
     OCRMYPDF_AVAILABLE : BOOLEAN, OCR_AVAILABLE : BOOLEAN]

\* The environment OCRConfig() gives when both OCR packages are installed.
DefaultOcrEnv ==
    [use_ocr |-> TRUE, use_ocrmypdf |-> TRUE,
     OCRMYPDF_AVAILABLE |-> TRUE, OCR_AVAILABLE |-> TRUE]

\* A text: where it came from, the length of text.strip(), and whether the
\* string has whitespace around that.
Text(source, chars, padded) ==
    [source |-> source, chars |-> chars, padded |-> padded]

NoText == Text("none", 0, FALSE)

\* text.strip()
strip(t) == Text(t.source, t.chars, FALSE)

\* The characters of pages first..last.
RECURSIVE SumChars(_, _, _)
SumChars(pages, first, last) ==
    IF first > last THEN 0
    ELSE pages[first].chars + SumChars(pages, first + 1, last)

\* The images of pages first..last.
RECURSIVE SumImages(_, _, _)
SumImages(pages, first, last) ==
    IF first > last THEN 0
    ELSE pages[first].images + SumImages(pages, first + 1, last)

\* len(text.strip()) of the text the loop builds, page.get_text() + "\n" for
\* each page: the characters from the first page that has any to the last
\* one that has any, and one newline after each of them but the last.
NativeLength(pages) ==
    LET lettered == {i \in DOMAIN pages : pages[i].chars > 0}
    IN  IF lettered = {} THEN 0
        ELSE LET first == CHOOSE i \in lettered : \A j \in lettered : i <= j
                 last  == CHOOSE i \in lettered : \A j \in lettered : j <= i
             IN  SumChars(pages, first, last) + (last - first)

\* The text of the standard extraction: padded by the trailing "\n".
NativeText(pages) == Text("native", NativeLength(pages), Len(pages) > 0)

\* pages_to_check = min(3, len(doc))
pages_to_check(pages) == IF Len(pages) < 3 THEN Len(pages) ELSE 3

\* What a classifier answered: whether it was asked, what it said, and
\* whether the inspection raised.
Classified(scanned, failed) ==
    [asked |-> TRUE, scanned |-> scanned, failed |-> failed]
NotClassified == [asked |-> FALSE, scanned |-> FALSE, failed |-> FALSE]

\* OCRProcessor._is_scanned_pdf(pdf_path): little text and some image on the
\* pages checked; True when the inspection raises (fitz cannot open the
\* file, a page cannot be read, or there is no page to divide by).
\*   avg_text_per_page < 100   iff  text_chars < 100 * pages_to_check
\*   avg_images_per_page > 0   iff  image_count > 0
_is_scanned_pdf(pdf) ==
    {Classified(TRUE, TRUE)}
    \cup (IF ~pdf.exists \/ ~pdf.opens \/ Len(pdf.pages) = 0 THEN {}
          ELSE {Classified(
                   /\ SumChars(pdf.pages, 1, pages_to_check(pdf.pages))
                          < 100 * pages_to_check(pdf.pages)
                   /\ SumImages(pdf.pages, 1, pages_to_check(pdf.pages)) > 0,
                   FALSE)})

\* EnhancedLocalPDFRAGPipeline.detect_pdf_type(): the characters of the first
\* pages divided by 3, images not looked at; "native" when the inspection
\* raises.
\*   avg_chars = total_chars / 3 if total_chars else 0
\*   avg_chars < 100   iff  total_chars < 300
detect_pdf_type(pdf) ==
    {Classified(FALSE, TRUE)}
    \cup (IF ~pdf.exists \/ ~pdf.opens THEN {}
          ELSE {Classified(
                   SumChars(pdf.pages, 1, pages_to_check(pdf.pages)) < 300,
                   FALSE)})

\* What the OCR extractor did: whether it was invoked, how it ended, the
\* text it returned, the backends it tried, in order, and those of them
\* that raised.
Ocr(outcome, ocr_text, tried, failed) ==
    [invoked |-> TRUE, outcome |-> outcome, text |-> ocr_text,
     tried |-> tried, failed |-> failed]
OcrNotInvoked ==
    [invoked |-> FALSE, outcome |-> "none", text |-> NoText,
     tried |-> << >>, failed |-> << >>]

\* The stripped lengths of what a backend can read off the pages.
OcrChars == {0, 200}

\* _ocr_with_ocrmypdf: the stripped text of the OCR'd PDF, or an exception
\* (ocrmypdf fails or times out).
_ocr_with_ocrmypdf ==
    {[outcome |-> "returned", text |-> Text("ocr", n, FALSE)] : n \in OcrChars}
    \cup {[outcome |-> "raised", text |-> NoText]}

\* _ocr_with_tesseract: "\n".join of the page texts, not stripped, or an
\* exception.
_ocr_with_tesseract ==
    {[outcome |-> "returned", text |-> Text("ocr", n, p)] :
        n \in OcrChars, p \in BOOLEAN}
    \cup {[outcome |-> "raised", text |-> NoText]}

\* The tesseract branch of extract_text_with_ocr, reached after the backends
\* in tried have all raised: the backend's text, its exception, or "No OCR
\* method available".
TesseractFallback(env, tried) ==
    IF env.OCR_AVAILABLE
    THEN {Ocr(r.outcome, r.text, Append(tried, "tesseract"),
              IF r.outcome = "raised" THEN Append(tried, "tesseract")
              ELSE tried) :
             r \in _ocr_with_tesseract}
    ELSE {Ocr("raised", NoText, tried, tried)}

\* Tesseract whatever the configuration prefers.
extract_text_with_ocr_TesseractOnly(env) ==
    IF ~env.use_ocr THEN {Ocr("raised", NoText, << >>, << >>)}
    ELSE TesseractFallback(env, << >>)

\* OCRProcessor.extract_text_with_ocr(pdf_path).
extract_text_with_ocr(env) ==
    IF ~env.use_ocr THEN {Ocr("raised", NoText, << >>, << >>)}
    ELSE IF env.use_ocrmypdf /\ env.OCRMYPDF_AVAILABLE
    THEN {Ocr(r.outcome, r.text, <<"ocrmypdf">>, << >>) :
             r \in {x \in _ocr_with_ocrmypdf : x.outcome = "returned"}}
         \cup TesseractFallback(env, <<"ocrmypdf">>)
    ELSE TesseractFallback(env, << >>)

\* What a call gave back.
Extracted(extracted, used, classifier, ocr) ==
    [outcome |-> "returned", text |-> extracted, ocr_used |-> used,
     classifier |-> classifier, ocr |-> ocr]
ExtractionRaised ==
    [outcome |-> "raised", text |-> NoText, ocr_used |-> FALSE,
     classifier |-> NotClassified, ocr |-> OcrNotInvoked]
NotExtracted ==
    [outcome |-> "none", text |-> NoText, ocr_used |-> FALSE,
     classifier |-> NotClassified, ocr |-> OcrNotInvoked]

\* Any text at all counts as meaningful.
MeaningfulText_Any(native) == native.chars > 0

\* "text.strip() and len(text.strip()) > 100"
MeaningfulText(native) == native.chars > 0 /\ native.chars > 100

\* An OCR run without text fails the extraction.
OcrFallback_Raise(native, classifier, ocr) ==
    [ExtractionRaised EXCEPT !.classifier = classifier, !.ocr = ocr]

\* OCR raised, or returned nothing but whitespace: "return text.strip(),
\* ocr_used" with the native text.
OcrFallback(native, classifier, ocr) ==
    Extracted(strip(native), FALSE, classifier, ocr)

\* LocalPGVectorRAG._extract_text_from_pdf(pdf_path): what the call can give.
ExtractRuns(pdf, env) ==
    IF ~pdf.exists \/ ~pdf.opens THEN {ExtractionRaised}
    ELSE IF MeaningfulText(NativeText(pdf.pages))
    THEN {Extracted(strip(NativeText(pdf.pages)), FALSE, NotClassified,
                    OcrNotInvoked)}
    ELSE UNION {
           IF ~c.scanned
           THEN {Extracted(strip(NativeText(pdf.pages)), FALSE, c,
                           OcrNotInvoked)}
           ELSE {IF o.outcome = "returned" /\ o.text.chars > 0
                 THEN Extracted(strip(o.text), TRUE, c, o)
                 ELSE OcrFallback(NativeText(pdf.pages), c, o)
                 : o \in extract_text_with_ocr(env)}
           : c \in _is_scanned_pdf(pdf)}

\* ----------------------------------------------- text extraction: actions

\* text, ocr_used = self._extract_text_from_pdf(pdf_path)
_extract_text_from_pdf ==
    /\ extract_pc = "called"
    /\ extract_call = "_extract_text_from_pdf"
    /\ extract_result' \in ExtractRuns(pdf_file, ocr_env)
    /\ extract_pc' = "done"
    /\ UNCHANGED <<pdf_file, ocr_env, extract_call>>
    /\ UNCHANGED notExtract

\* self.ocr_processor._is_scanned_pdf(pdf_path), called on its own.
classify_scanned ==
    /\ extract_pc = "called"
    /\ extract_call = "_is_scanned_pdf"
    /\ \E c \in _is_scanned_pdf(pdf_file) :
          extract_result' = Extracted(NoText, FALSE, c, OcrNotInvoked)
    /\ extract_pc' = "done"
    /\ UNCHANGED <<pdf_file, ocr_env, extract_call>>
    /\ UNCHANGED notExtract

\* self.detect_pdf_type() of the pipeline.
classify_pdf_type ==
    /\ extract_pc = "called"
    /\ extract_call = "detect_pdf_type"
    /\ \E c \in detect_pdf_type(pdf_file) :
          extract_result' = Extracted(NoText, FALSE, c, OcrNotInvoked)
    /\ extract_pc' = "done"
    /\ UNCHANGED <<pdf_file, ocr_env, extract_call>>
    /\ UNCHANGED notExtract

\* No extraction under way.
InitExtractor ==
    /\ pdf_file = Pdf(FALSE, FALSE, << >>)
    /\ ocr_env = DefaultOcrEnv
    /\ extract_call = "none"
    /\ extract_pc = "done"
    /\ extract_result = NotExtracted

\* ------------------------------------------- paragraph chunking: chunk_text

\* A string is the sequence of its characters; " " is any whitespace.
\* The paragraphs of the texts: text.split("\n\n") gives strings without
\* "\n\n", which may be empty and may begin or end with whitespace.
ParagraphStrings ==
    {<< >>, <<"a">>, <<"a", "b">>, <<"b", "a", "b">>, <<" ", "a">>,
     <<"b", " ">>, <<" ">>, <<"a", "b", "a", "b", "a">>}

\* s.strip()
RECURSIVE StripString(_)
StripString(s) ==
    IF s = << >> THEN s
    ELSE IF Head(s) = " " THEN StripString(Tail(s))
    ELSE IF s[Len(s)] = " " THEN StripString(SubSeq(s, 1, Len(s) - 1))
    ELSE s

\* current[-overlap:]: the last overlap characters, the whole string when it
\* has fewer, and the whole string for an overlap of 0 (current[-0:] is
\* current[0:]).
LastChars(current, overlap) ==
    IF overlap = 0 \/ overlap >= Len(current) THEN current
    ELSE SubSeq(current, Len(current) - overlap + 1, Len(current))

\* The for loop of chunk_text from paragraph k on, with the buffer current,
\* the chunks emitted and the flushes made so far, and the "if
\* current.strip()" after the loop.
RECURSIVE Accumulate(_, _, _, _, _, _)
Accumulate(paragraphs, k, current, chunks, flushed, config) ==
    IF k > Len(paragraphs)
    THEN [chunks  |-> IF StripString(current) # << >>
                      THEN Append(chunks, StripString(current))
                      ELSE chunks,
          flushes |-> flushed]
    ELSE IF Len(current \o paragraphs[k]) > config.max_chunk /\ current # << >>
    THEN Accumulate(paragraphs, k + 1,
                    LastChars(current, config.overlap) \o paragraphs[k],
                    Append(chunks, StripString(current)),
                    Append(flushed,
                           [buffer |-> current,
                            next   |-> LastChars(current, config.overlap)
                                           \o paragraphs[k]]),
                    config)
    ELSE Accumulate(paragraphs, k + 1, current \o paragraphs[k], chunks,
                    flushed, config)

\* EnhancedLocalPDFRAGPipeline.chunk_text(text, max_chunk, overlap), on the
\* paragraphs of the text.
chunk_text(paragraphs, config) ==
    Accumulate(paragraphs, 1, << >>, << >>, << >>, config)

\* chunks = self.chunk_text(text)
chunk_paragraphs ==
    /\ paragraph_pc = "called"
    /\ paragraph_chunks' = chunk_text(paragraph_text, paragraph_config).chunks
    /\ flushes' = chunk_text(paragraph_text, paragraph_config).flushes
    /\ paragraph_pc' = "done"
    /\ UNCHANGED <<paragraph_text, paragraph_config>>
    /\ UNCHANGED notParagraph

\* No call of chunk_text under way.
InitParagraphs ==
    /\ paragraph_text = << << >> >>
    /\ paragraph_config = [max_chunk |-> 1000, overlap |-> 200]
    /\ paragraph_pc = "done"
    /\ paragraph_chunks = << >>
    /\ flushes = << >>

\* --------------------------------------------------- orchestration graph

\* The keys of the registry of _resolve_agent.
Registry ==
    {"upstox", "digital_twin_persona", "deep_web_research",
     "us_stock_analysis", "indian_stock_analysis", "general_advisor"}

\* RouterAgent.route(query, hinted): the hint, the agent of the first
\* pattern of INTENT_MAP the query matches, or what the language model
\* answered ("fin_advisor" for an empty answer). The orchestrator reads the
\* hint from state.get("fin_advisor"), a key no node sets: there is none.
route ==
    {"fin_score", "credits_loans", "investment_coach", "insurance_analyzer",
     "retirement_planner", "tax_planner", "fraud_shield", "fin_advisor"}

\* The 'agent' of a plan step: any string the planner's model wrote. Two keys
\* of the registry, the routing step, and a name the registry does not have.
StepAgents == {"upstox", "general_advisor", "router", "tax_planner"}

\* PlannerAgent.plan(): the plans of at most MaxPlanSteps steps, the empty
\* plan included ('steps' is a list of any length).
Plans == UNION {[1..n -> StepAgents] : n \in 0..MaxPlanSteps}

\* OrchestratorConfig.max_steps: the default and smaller ones.
MaxStepsConfigs == {0, 2, 8}

\* Orchestrator._should_prepare_data(state)
_should_prepare_data(data) ==
    IF ~data.profile \/ ~data.transactions THEN "prepare_data" ELSE "route"

\* Orchestrator._should_continue(state)
_should_continue(steps, step_idx) ==
    IF step_idx >= Len(steps) \/ step_idx >= max_steps THEN "end"
    ELSE IF steps[step_idx + 1] = "router" THEN "end"
    ELSE "execute"

\* The conditional edges of "route" and of "next".
EdgeOf(label) ==
    CASE label = "execute" -> "execute"
      [] label = "route" -> "route"
      [] label = "end" -> "END"

\* The node raised: graph.invoke() ends with the exception.
GraphRaises(exception) ==
    /\ graph_node' = "raised"
    /\ graph_error' = exception

\* Orchestrator._node_plan and the conditional edge after "planner".
_node_plan ==
    /\ graph_node = "planner"
    /\ plan' \in Plans
    /\ step_index' = 0
    /\ graph_node' = _should_prepare_data(user_data)
    /\ UNCHANGED <<max_steps, graph_error, selected_agent, user_data, executed>>
    /\ UNCHANGED notGraph

\* Orchestrator._node_prepare_data: the profile and the transactions loaded,
\* either of which can be empty; the edge to "route".
_node_prepare_data ==
    /\ graph_node = "prepare_data"
    /\ user_data' \in [profile : BOOLEAN, transactions : BOOLEAN]
    /\ graph_node' = "route"
    /\ UNCHANGED <<max_steps, graph_error, plan, step_index, selected_agent,
                   executed>>
    /\ UNCHANGED notGraph

\* Orchestrator._node_route and the conditional edge after "route":
\* plan.steps[step_index] raises IndexError past the end of the list.
_node_route ==
    /\ graph_node = "route"
    /\ IF step_index >= Len(plan)
       THEN /\ GraphRaises("IndexError")
            /\ UNCHANGED selected_agent
       ELSE /\ \/ /\ plan[step_index + 1] # "router"
                  /\ selected_agent' = plan[step_index + 1]
               \/ /\ plan[step_index + 1] = "router"
                  /\ selected_agent' \in route
            /\ graph_node' = EdgeOf(_should_continue(plan, step_index))
            /\ UNCHANGED graph_error
    /\ UNCHANGED <<max_steps, plan, step_index, user_data, executed>>
    /\ UNCHANGED notGraph

\* Orchestrator._node_execute and the edge to "next": the agent of
\* state["selected_agent"] is resolved and run.
_node_execute ==
    /\ graph_node = "execute"
    /\ IF selected_agent = ""
       THEN GraphRaises("RuntimeError") /\ UNCHANGED executed
       ELSE IF selected_agent \notin Registry
       THEN GraphRaises("KeyError") /\ UNCHANGED executed
       ELSE /\ executed' = Append(executed, [step_index |-> step_index,
                                             agent |-> selected_agent])
            /\ graph_node' = "next"
            /\ UNCHANGED graph_error
    /\ UNCHANGED <<max_steps, plan, step_index, selected_agent, user_data>>
    /\ UNCHANGED notGraph

\* Orchestrator._node_next_step and the conditional edge after "next".
_node_next_step ==
    /\ graph_node = "next"
    /\ step_index' = step_index + 1
    /\ graph_node' = EdgeOf(_should_continue(plan, step_index'))
    /\ UNCHANGED <<max_steps, graph_error, plan, selected_agent, user_data,
                   executed>>
    /\ UNCHANGED notGraph

\* Orchestrator.run(): the graph is invoked with user_id, query and
\* hinted_agent only, and starts at "planner".
InitOrchestrator ==
    /\ max_steps = 8
    /\ graph_node = "planner"
    /\ graph_error = "none"
    /\ plan = << >>
    /\ step_index = 0
    /\ selected_agent = ""
    /\ user_data = [profile |-> FALSE, transactions |-> FALSE]
    /\ executed = << >>

\* ------------------------------------------------------ retrieval: helpers

Queries == {"q1", "q2"}

\* HyDEGenerator.generate_hypothetical_document(query): the text the
\* completion provider wrote, or the query itself (no API key, or the
\* request failed).
HyDEOutputs(query) == {query, "h1", "h2"}

\* The same call with what happened in it: there was no API key, the request
\* or the parsing of the answer raised (both give the query back), or the
\* provider's text was returned.
HyDERuns(query) ==
    {[status |-> "no_api_key", text |-> query],
     [status |-> "failed", text |-> query]}
    \cup {[status |-> "generated", text |-> t] :
              t \in HyDEOutputs(query) \ {query}}

\* search_documents(use_hyde=False) searches for the query itself.
NoHyDE(query) == {[status |-> "off", text |-> query]}

\* An optional argument: << >> is Python's None, <<x>> the value x.
Given(x) == <<x>>
NotGiven == << >>

\* "if year_filter:" and "if doc_type_filter:", Python's truth value of the
\* argument: None, the integer 0 and the empty string are false.
YearFilterApplies(year_filter) == year_filter # NotGiven /\ year_filter[1] # 0
DocTypeFilterApplies(doc_type_filter) ==
    doc_type_filter # NotGiven /\ doc_type_filter[1] # ""

\* The WHERE clause search_documents builds from its conditions.
WhereClause(row, year_filter, doc_type_filter) ==
    /\ YearFilterApplies(year_filter) => row.year = year_filter[1]
    /\ DocTypeFilterApplies(doc_type_filter) => row.doc_type = doc_type_filter[1]

Dot(u, v) == u[1] * v[1] + u[2] * v[2]

\* The number 1 in the unit of the similarities: the squared length of the
\* embedding vectors.
One == Dot(encode("A"), encode("A"))

\* "embedding <=> %s::vector", pgvector's cosine distance.
CosineDistance(u, v) == One - Dot(u, v)

\* "1 - (embedding <=> %s::vector) as similarity".
Similarity(row, query_embedding) ==
    One - CosineDistance(row.embedding, query_embedding)

\* "ORDER BY similarity DESC LIMIT %s" over the rows with the indices in
\* matching: every order of them by non-increasing similarity (rows of equal
\* similarity come in any order), cut to the limit.
OrderByLimit(matching, query_embedding, limit) ==
    LET n == Cardinality(matching)
        orders == {o \in [1..n -> matching] :
                     /\ \A i, j \in 1..n : o[i] = o[j] => i = j
                     /\ \A i, j \in 1..n : i < j =>
                           Similarity(rows[o[i]], query_embedding)
                              >= Similarity(rows[o[j]], query_embedding)}
    IN  {SubSeq(o, 1, IF limit < n THEN limit ELSE n) : o \in orders}

\* One entry of the result list.
ResultOf(row, query_embedding) ==
    [content       |-> row.content,
     pdf_name      |-> row.pdf_name,
     pdf_link      |-> row.pdf_link,
     year          |-> row.year,
     doc_type      |-> row.doc_type,
     chunk_index   |-> row.chunk_index,
     ocr_processed |-> row.ocr_processed,
     similarity    |-> Similarity(row, query_embedding)]

Results(order, query_embedding) ==
    [k \in DOMAIN order |-> ResultOf(rows[order[k]], query_embedding)]

\* The body of search_documents: HyDE, the query embedding, the SQL query.
\*  - everything succeeds: the rows of the WHERE clause, ordered and cut;
\*  - encode raises, or getconn/execute raises: "except Exception: return []".
\* The connection comes from getconn() inside the try and goes back with
\* putconn(conn) in the finally, whatever happened in between.
SearchRuns(query, limit, use_hyde, year_filter, doc_type_filter) ==
    UNION {
      {[hyde |-> hyde.status, text |-> hyde.text, outcome |-> "returned",
        error |-> "none", results |-> Results(order, encode(hyde.text))] :
          order \in OrderByLimit(
                      {i \in DOMAIN rows :
                          WhereClause(rows[i], year_filter, doc_type_filter)},
                      encode(hyde.text), limit)}
      \cup {[hyde |-> hyde.status, text |-> hyde.text, outcome |-> "returned",
             error |-> e, results |-> << >>] : e \in {"encode", "store"}}
      : hyde \in (IF use_hyde THEN HyDERuns(query) ELSE NoHyDE(query))}

\* One run of search_documents, as the call the model follows.
SearchDocuments(query, limit, use_hyde, year_filter, doc_type_filter) ==
    \E run \in SearchRuns(query, limit, use_hyde, year_filter,
                          doc_type_filter) :
        /\ search_hyde' = run.hyde
        /\ search_text' = run.text
        /\ search_outcome' = run.outcome
        /\ search_error' = run.error
        /\ search_results' = run.results
        /\ checked_out' = checked_out

\* The string _get_rag_context returns: the numbered documents, "No relevant
\* financial documents found." for an empty list, "Unable to retrieve
\* relevant financial documents." when the search raised.
RagContext(outcome, results) ==
    IF outcome = "raised" THEN [says |-> "unable", sources |-> << >>]
    ELSE IF results = << >> THEN [says |-> "no_documents", sources |-> << >>]
    ELSE [says |-> "documents", sources |-> results]

NoContext == [says |-> "none", sources |-> << >>]

\* The entry of 'sources' process_query makes of a result.
SourceOf(res) ==
    [pdf_name |-> res.pdf_name, pdf_link |-> res.pdf_link, year |-> res.year,
     doc_type |-> res.doc_type, similarity |-> res.similarity]

Sources(results) == [k \in DOMAIN results |-> SourceOf(results[k])]

\* The dictionary process_query returns: 'sources', 'context_used' and
\* 'guardrail_triggered' ("none" is Python's None).
Response(sources, context_used, guardrail_triggered) ==
    [sources |-> sources, context_used |-> context_used,
     guardrail_triggered |-> guardrail_triggered]

NoResponse == Response(<< >>, FALSE, "not_called")

\* What the guardrails make of a query: is_financial_query is false, or
\* is_too_complex is true, or the query goes on to retrieval.
Guardrails == {"non_financial", "too_complex", "passed"}

\* The dictionary get_document_stats returns from its row of counts; {} when
\* the query raised.
DocumentStats ==
    [total_chunks |-> Len(rows),
     unique_documents |-> Cardinality({rows[i].pdf_name : i \in DOMAIN rows}),
     ocr_processed_chunks
         |-> Cardinality({i \in DOMAIN rows : rows[i].ocr_processed})]

NoStats == [k \in {} |-> 0]

\* A retrieval call: the operation and its arguments.
SearchCall(op, query, limit, use_hyde, year_filter, doc_type_filter, th) ==
    [op |-> op, query |-> query, limit |-> limit, use_hyde |-> use_hyde,
     year_filter |-> year_filter, doc_type_filter |-> doc_type_filter,
     similarity_threshold |-> th]

\* ------------------------------------------------------ retrieval: actions

\* LocalPGVectorRAG.search_documents(query, limit, use_hyde, year_filter,
\* doc_type_filter).
search_documents ==
    /\ search_pc = "called"
    /\ search_call.op = "search_documents"
    /\ SearchDocuments(search_call.query, search_call.limit,
                       search_call.use_hyde, search_call.year_filter,
                       search_call.doc_type_filter)
    /\ rag_context' = NoContext
    /\ response' = NoResponse
    /\ search_pc' = "done"
    /\ UNCHANGED <<search_call, notSearch>>

\* FinancialAgent._get_rag_context(query): search_documents(query, limit=3,
\* use_hyde=True) and the context string built from its results.
_get_rag_context ==
    /\ search_pc = "called"
    /\ search_call.op = "_get_rag_context"
    /\ SearchDocuments(search_call.query, search_call.limit,
                       search_call.use_hyde, search_call.year_filter,
                       search_call.doc_type_filter)
    /\ rag_context' = RagContext(search_outcome', search_results')
    /\ response' = NoResponse
    /\ search_pc' = "done"
    /\ UNCHANGED <<search_call, notSearch>>

\* FinancialAgent.process_query(query): the guardrails, then the context of
\* _get_rag_context(query) for the language model, then the sources from a
\* second search_documents(query, limit=3, use_hyde=True). The search the
\* model keeps in search_* is the second one.
process_query ==
    /\ search_pc = "called"
    /\ search_call.op = "process_query"
    /\ search_pc' = "done"
    /\ checked_out' = checked_out
    /\ \E verdict \in Guardrails :
          IF verdict # "passed"
          THEN /\ response' = Response(<< >>, FALSE, verdict)
               /\ rag_context' = NoContext
               /\ UNCHANGED <<search_text, search_results, search_outcome,
                              search_error, search_hyde>>
          ELSE \E context_run, sources_run \in
                    SearchRuns(search_call.query, 3, TRUE, NotGiven, NotGiven) :
                  /\ rag_context' = RagContext(context_run.outcome,
                                               context_run.results)
                  /\ response' = Response(Sources(sources_run.results),
                                          rag_context'.says # "no_documents",
                                          "none")
                  /\ search_hyde' = sources_run.hyde
                  /\ search_text' = sources_run.text
                  /\ search_outcome' = sources_run.outcome
                  /\ search_error' = sources_run.error
                  /\ search_results' = sources_run.results
    /\ UNCHANGED <<search_call, notSearch>>

\* LocalPGVectorRAG.get_document_stats(): the counts over the table, or {}
\* when getconn or the query raised; "finally" gives the connection back.
get_document_stats ==
    /\ search_pc = "called"
    /\ search_call.op = "get_document_stats"
    /\ search_pc' = "done"
    /\ checked_out' = checked_out
    /\ rag_context' = NoContext
    /\ search_outcome' = "returned"
    /\ \/ search_error' = "none" /\ response' = DocumentStats
       \/ search_error' = "store" /\ response' = NoStats
    /\ UNCHANGED <<search_text, search_results, search_hyde>>
    /\ UNCHANGED <<search_call, notSearch>>

\* The connections query_rag still holds when it ends. putconn(conn) is the
\* statement after fetchall() and cursor.close(), in no "finally": an
\* exception of encode comes before getconn(), one of the store comes from
\* getconn() itself (nothing taken) or from cursor(), execute() or
\* fetchall() (the connection stays checked out).
ConnectionsKept(error) == IF error = "store" THEN {0, 1} ELSE {0}

\* The /query endpoint, query_rag(request): HyDE, the query embedding and a
\* SQL query with "WHERE similarity > threshold"; any exception becomes an
\* HTTP 500 error.
query_rag ==
    /\ search_pc = "called"
    /\ search_call.op = "query_rag"
    /\ rag_context' = NoContext
    /\ response' = NoResponse
    /\ search_pc' = "done"
    /\ \E hyde \in HyDERuns(search_call.query) :
          /\ search_hyde' = hyde.status
          /\ search_text' = hyde.text
          /\ \/ /\ search_error' = "none"
                /\ search_outcome' = "returned"
                /\ \E order \in OrderByLimit(
                        {i \in DOMAIN rows :
                            Similarity(rows[i], encode(hyde.text))
                                > search_call.similarity_threshold[1]},
                        encode(hyde.text), search_call.limit) :
                      search_results' = Results(order, encode(hyde.text))
             \/ /\ search_error' \in {"encode", "store"}
                /\ search_outcome' = "raised"
                /\ search_results' = << >>
    /\ \E kept \in ConnectionsKept(search_error') :
          checked_out' = checked_out + kept
    /\ UNCHANGED <<search_call, notSearch>>

\* The rows embed_document can insert.
InsertableRows ==
    UNION {{InsertedRow(d, i) : i \in DOMAIN DocChunks(d)} : d \in DocIds}

\* The contents financial_documents can have: rows embed_document inserts,
\* no two of them with the same content hash.
Stores ==
    UNION {{t \in [1..n -> InsertableRows] :
              \A i, j \in 1..n :
                  t[i].content_hash = t[j].content_hash => i = j}
           : n \in 0..MaxRows}

YearFilters == {NotGiven, Given(0), Given(2022), Given(2023)}
DocTypeFilters == {NotGiven, Given("annual"), Given("transcript")}
Thresholds == {0, 15}

\* The calls made: search_documents with any arguments, _get_rag_context
\* (limit 3, HyDE, no filter) and the endpoint with a limit and a threshold.
SearchCalls ==
    {SearchCall("search_documents", q, l, h, y, t, NotGiven) :
        q \in Queries, l \in 0..MaxLimit, h \in BOOLEAN,
        y \in YearFilters, t \in DocTypeFilters}
    \cup {SearchCall("_get_rag_context", q, 3, TRUE, NotGiven, NotGiven,
                     NotGiven) : q \in Queries}
    \cup {SearchCall("query_rag", q, l, TRUE, NotGiven, NotGiven, Given(th)) :
        q \in Queries, l \in 0..MaxLimit, th \in Thresholds}
    \cup {SearchCall("process_query", q, 3, TRUE, NotGiven, NotGiven,
                     NotGiven) : q \in Queries}
    \cup {SearchCall("get_document_stats", "q1", 0, FALSE, NotGiven, NotGiven,
                     NotGiven)}

\* No retrieval call under way.
InitSearch ==
    /\ search_call = SearchCall("none", "q1", 0, FALSE, NotGiven, NotGiven,
                                NotGiven)
    /\ search_pc = "done"
    /\ search_text = "q1"
    /\ search_results = << >>
    /\ search_outcome = "returned"
    /\ search_error = "none"
    /\ search_hyde = "off"
    /\ rag_context = NoContext
    /\ response = NoResponse
    /\ checked_out = 0

\* One retrieval call, with any arguments, over any content of the table.
\* A call reads the table and keeps nothing for the next call.
InitRetrieval ==
    /\ rows \in Stores
    /\ InitWorkers
    /\ InitStore
    /\ InitChunker
    /\ InitHyDE
    /\ InitExtractor
    /\ InitParagraphs
    /\ InitOrchestrator
    /\ search_call \in SearchCalls
    /\ search_pc = "called"
    /\ search_text = search_call.query
    /\ search_results = << >>
    /\ search_outcome = "returned"
    /\ search_error = "none"
    /\ search_hyde = "off"
    /\ rag_context = NoContext
    /\ response = NoResponse
    /\ checked_out = 0

NextSearch ==
    \/ search_documents
    \/ _get_rag_context
    \/ query_rag
    \/ process_query
    \/ get_document_stats

SpecSearch == InitRetrieval /\ [][NextSearch]_vars

\* One call of _chunk_text, on any text under any configuration.
InitChunking ==
    /\ InitIngest
    /\ InitStore
    /\ InitSearch
    /\ InitHyDE
    /\ InitExtractor
    /\ InitParagraphs
    /\ InitOrchestrator
    /\ \E call \in ChunkCalls :
          source_text = call[1] /\ chunk_config = call[2]
    /\ chunk_pc = "called"
    /\ chunk_outcome = "returned"
    /\ text_chunks = << >>
    /\ indexed = << >>

NextChunk == chunk_document

SpecChunk == InitChunking /\ [][NextChunk]_vars

\* One call of the extractor, under any OCR environment, or of one of the
\* two classifiers, on any PDF.
ExtractCalls ==
    {<<"_extract_text_from_pdf", env>> : env \in OcrEnvs}
    \cup {<<"_is_scanned_pdf", DefaultOcrEnv>>,
          <<"detect_pdf_type", DefaultOcrEnv>>}

InitExtraction ==
    /\ InitIngest
    /\ InitStore
    /\ InitSearch
    /\ InitChunker
    /\ InitHyDE
    /\ InitParagraphs
    /\ InitOrchestrator
    /\ pdf_file \in Pdfs
    /\ \E call \in ExtractCalls :
          extract_call = call[1] /\ ocr_env = call[2]
    /\ extract_pc = "called"
    /\ extract_result = NotExtracted

NextExtract ==
    \/ _extract_text_from_pdf
    \/ classify_scanned
    \/ classify_pdf_type

SpecExtract == InitExtraction /\ [][NextExtract]_vars

\* The budgets chunk_text is called with: max_chunk and overlap are
\* arguments, by default 1000 and 200; the model's strings are short, and so
\* are its budgets.
ParagraphConfigs ==
    {[max_chunk |-> m, overlap |-> o] : m \in {2, 4}, o \in {0, 1, 3}}

ParagraphTexts ==
    UNION {[1..n -> ParagraphStrings] : n \in 1..MaxParagraphs}

\* One call of chunk_text, on any text with any budget.
InitParagraphChunking ==
    /\ InitIngest
    /\ InitStore
    /\ InitSearch
    /\ InitChunker
    /\ InitHyDE
    /\ InitExtractor
    /\ InitOrchestrator
    /\ paragraph_text \in ParagraphTexts
    /\ paragraph_config \in ParagraphConfigs
    /\ paragraph_pc = "called"
    /\ paragraph_chunks = << >>
    /\ flushes = << >>

NextParagraph == chunk_paragraphs

SpecParagraph == InitParagraphChunking /\ [][NextParagraph]_vars

\* One run of the orchestrator, under any max_steps.
InitGraph ==
    /\ InitIngest
    /\ InitStore
    /\ InitSearch
    /\ InitChunker
    /\ InitHyDE
    /\ InitExtractor
    /\ InitParagraphs
    /\ max_steps \in MaxStepsConfigs
    /\ graph_node = "planner"
    /\ graph_error = "none"
    /\ plan = << >>
    /\ step_index = 0
    /\ selected_agent = ""
    /\ user_data = [profile |-> FALSE, transactions |-> FALSE]
    /\ executed = << >>

NextGraph ==
    \/ _node_plan
    \/ _node_prepare_data
    \/ _node_route
    \/ _node_execute
    \/ _node_next_step

\* graph.invoke() runs the nodes one after the other until END or an
\* exception: a node that can run does run.
SpecGraph == InitGraph /\ [][NextGraph]_vars /\ WF_vars(NextGraph)

Init ==
    /\ InitIngest
    /\ InitStore
    /\ InitSearch
    /\ InitChunker
    /\ InitHyDE
    /\ InitExtractor
    /\ InitParagraphs
    /\ InitOrchestrator

Next ==
    \/ \E w \in Workers : \E d \in DocIds : embed_document(w, d)
    \/ \E w \in Workers : select_existing(w)
    \/ \E w \in Workers : generate_embedding(w)
    \/ \E w \in Workers : insert_chunk(w)
    \/ \E w \in Workers : deadlock_detected(w)
    \/ \E w \in Workers : commit_document(w)
    \/ \E d \in DocIds : \E e \in EmbeddingLists(DocChunks(d)) :
           store_document_and_chunks(d, e)
    \/ insert_document
    \/ insert_chunks
    \/ commit_store

Spec == Init /\ [][Next]_vars

\* financial_documents as an earlier run of the process left it: empty, or
\* holding the chunks of d1.
StoredBefore ==
    {<< >>, [i \in DOMAIN DocChunks("d1") |-> InsertedRow("d1", i)]}

InitReingest ==
    /\ rows \in StoredBefore
    /\ InitWorkers
    /\ InitStore
    /\ InitSearch
    /\ InitChunker
    /\ InitHyDE
    /\ InitExtractor
    /\ InitParagraphs
    /\ InitOrchestrator

\* The calls of embed_document alone.
NextIngest ==
    \/ \E w \in Workers : \E d \in DocIds : embed_document(w, d)
    \/ \E w \in Workers : select_existing(w)
    \/ \E w \in Workers : generate_embedding(w)
    \/ \E w \in Workers : insert_chunk(w)
    \/ \E w \in Workers : deadlock_detected(w)
    \/ \E w \in Workers : commit_document(w)

SpecReingest == InitReingest /\ [][NextIngest]_vars

\* The retrieval calls that use HyDE, and search_documents without it.
HyDESearchCalls ==
    {SearchCall("search_documents", q, MaxLimit, h, NotGiven, NotGiven,
                NotGiven) : q \in Queries, h \in BOOLEAN}
    \cup {SearchCall("_get_rag_context", "q1", 3, TRUE, NotGiven, NotGiven,
                     NotGiven),
          SearchCall("query_rag", "q1", MaxLimit, TRUE, NotGiven, NotGiven,
                     Given(0))}

\* A translator under any configuration with an empty cache, and one
\* retrieval call over the table an earlier run left.
InitHyDECalls ==
    /\ rows \in StoredBefore
    /\ InitWorkers
    /\ InitStore
    /\ InitChunker
    /\ InitExtractor
    /\ InitParagraphs
    /\ InitOrchestrator
    /\ hyde_config \in HyDEConfigs
    /\ HAS_OPENAI \in BOOLEAN
    /\ cache = [k \in {} |-> << >>]
    /\ hyde_log = << >>
    /\ search_call \in HyDESearchCalls
    /\ search_pc = "called"
    /\ search_text = search_call.query
    /\ search_results = << >>
    /\ search_outcome = "returned"
    /\ search_error = "none"
    /\ search_hyde = "off"
    /\ rag_context = NoContext
    /\ response = NoResponse
    /\ checked_out = 0

NextHyDE ==
    \/ \E query \in HyDEQueries : generate_hypothetical_document(query)
    \/ \E model_name \in ModelNames : set_model_name(model_name)
    \/ search_documents
    \/ _get_rag_context
    \/ query_rag

SpecHyDE == InitHyDECalls /\ [][NextHyDE]_vars

\* ================================================================ claims

IsPrefix(s, t) == Len(s) <= Len(t) /\ \A i \in DOMAIN s : t[i] = s[i]

\* Every chunk of PDF d has a row in tbl.
AllChunksStored(d, tbl) ==
    \A i \in DOMAIN DocChunks(d) :
        HashIn(_generate_content_hash(DocChunks(d)[i]), tbl)

\* The exceptions caught by the except clause of the chunk loop.
ChunkErrors == {"encode", "unique_violation", "deadlock", "failed_transaction"}

\* C1: ingesting a file whose chunks are all stored already (as they are
\* after a first ingestion of the same file) inserts 0 chunks and leaves
\* the number of stored chunk rows as it was: for embed_document, and for
\* store_document_and_chunks called on a file it has stored before.
C1_SecondIngestInsertsNothing ==
    /\ \A w \in Workers :
          (pc[w] = "done" /\ AllChunksStored(doc[w], rows_before[w]))
              => (embedded_count[w] = 0 /\ persisted[w] = << >>)
    /\ (/\ store_pc = "done"
        /\ \E i \in DOMAIN store_before.documents :
              store_before.documents[i].file_hash
                  = get_file_hash(store_args.pdf_path))
           => Len(document_chunks) = Len(store_before.chunks)

\* C2: no two stored chunk rows have the same content hash, in the table
\* financial_documents and in the table document_chunks.
C2_ContentHashUnique ==
    /\ \A i, j \in DOMAIN rows :
          rows[i].content_hash = rows[j].content_hash => i = j
    /\ \A i, j \in DOMAIN document_chunks :
          _generate_content_hash(document_chunks[i].content)
              = _generate_content_hash(document_chunks[j].content) => i = j

\* C3: a call in which the processing of a chunk raised has persisted no
\* chunk at all; a store call that did not return a document id has left
\* both of its tables as they were.
C3_BatchIsAtomic ==
    /\ \A w \in Workers :
          (pc[w] = "done" /\ errors[w] \cap ChunkErrors # {})
              => persisted[w] = << >>
    /\ (store_pc = "done" /\ store_result.outcome # "doc_id")
           => (/\ documents = store_before.documents
               /\ document_chunks = store_before.chunks)

\* C4: a call whose only failure was losing the race on the uniqueness
\* constraint (nothing else failed, in it or in the other calls) ends as if
\* the chunk had been skipped by the dedup gate: every chunk of its document
\* is stored, the contested one exactly once.
C4_LostRaceIsNoOp ==
    \A w \in Workers :
        (/\ \A v \in Workers : pc[v] = "done"
         /\ "unique_violation" \in errors[w]
         /\ errors[w] \subseteq {"unique_violation", "failed_transaction"}
         /\ \A v \in Workers \ {w} : errors[v] = {})
            => (/\ AllChunksStored(doc[w], rows)
                /\ \A i, j \in DOMAIN rows :
                      rows[i].content_hash = rows[j].content_hash => i = j)

\* C5: once a call has failed (an exception was caught in it), the rows
\* that were committed when it started are still there, unchanged and in
\* place, in all three tables.
C5_FailureKeepsCommittedRows ==
    /\ \A w \in Workers :
          errors[w] # {} => IsPrefix(rows_before[w], rows)
    /\ (store_pc = "done" /\ store_result.outcome # "doc_id")
           => (/\ IsPrefix(store_before.documents, documents)
               /\ IsPrefix(store_before.chunks, document_chunks))

\* A call that failed and rolled back has ended, and rows committed by an
\* earlier call were there when it started.
C5_Witness ==
    \E w \in Workers :
        /\ pc[w] = "done"
        /\ "commit" \in errors[w]
        /\ embedded_count[w] > 0
        /\ rows_before[w] # << >>
        /\ rows = rows_before[w]

\* C6: a step never stores a second row for a content hash that has a row,
\* and never changes that row: the one row of a text keeps the pdf_name,
\* pdf_link, year, doc_type and chunk_index of the document that was
\* indexed first.
C6_FirstIndexedKeepsRow ==
    [][/\ \A i \in DOMAIN rows : \A j \in DOMAIN rows' :
             rows'[j].content_hash = rows[i].content_hash
                 => (j = i /\ rows'[j] = rows[i])
       /\ \A j, k \in DOMAIN rows' :
             rows'[j].content_hash = rows'[k].content_hash => j = k]_vars

\* d1 was indexed first and holds the row of the text "A"; the ingestion of
\* d2, which contains "A" as a chunk, has ended without an error.
C6_Witness ==
    \E w \in Workers :
        /\ pc[w] = "done"
        /\ doc[w] = "d2"
        /\ errors[w] = {}
        /\ \E i \in DOMAIN rows_before[w] :
              /\ rows_before[w][i].content = "A"
              /\ rows_before[w][i].pdf_name = "d1"
        /\ \E i \in DOMAIN rows :
              rows[i].content = "A" /\ rows[i] = InsertedRow("d1", 1)

\* C7: a store call whose chunk and embedding lists differ in length returns
\* None and leaves the tables documents and document_chunks as they were.
C7_MismatchStoresNothing ==
    (/\ store_pc = "done"
     /\ Len(store_args.chunks) # Len(store_args.embeddings))
        => (/\ store_result = ReturnsNone
            /\ documents = store_before.documents
            /\ document_chunks = store_before.chunks)

\* A call with two chunks and one embedding has ended, after an earlier call
\* had stored a document.
C7_Witness ==
    /\ store_pc = "done"
    /\ Len(store_args.chunks) = 2
    /\ Len(store_args.embeddings) = 1
    /\ documents # << >>

\* The rows a retrieval call asks for: those with the year and the doc_type
\* of the filters it was given, and with a similarity above the threshold
\* it was given.
MatchesFilters(row) ==
    /\ search_call.year_filter # NotGiven
          => row.year = search_call.year_filter[1]
    /\ search_call.doc_type_filter # NotGiven
          => row.doc_type = search_call.doc_type_filter[1]
    /\ search_call.similarity_threshold # NotGiven
          => Similarity(row, encode(search_text))
                 > search_call.similarity_threshold[1]

MatchingRows == {i \in DOMAIN rows : MatchesFilters(rows[i])}

\* C8: the list a search returns has non-increasing similarities and as
\* many entries as the limit, or as there are rows matching the filters if
\* those are fewer.
C8_SortedAndCutToLimit ==
    (search_pc = "done" /\ search_error = "none")
        => (/\ \A i, j \in DOMAIN search_results :
                  i < j => search_results[i].similarity
                              >= search_results[j].similarity
            /\ Len(search_results)
                  = (IF search_call.limit < Cardinality(MatchingRows)
                     THEN search_call.limit
                     ELSE Cardinality(MatchingRows)))

\* C9: every result of a search given a year filter has that year, and every
\* result of a search given a doc_type filter has that doc_type.
C9_ResultsPassTheFilters ==
    search_pc = "done"
        => \A k \in DOMAIN search_results :
              /\ search_call.year_filter # NotGiven
                    => search_results[k].year = search_call.year_filter[1]
              /\ search_call.doc_type_filter # NotGiven
                    => search_results[k].doc_type
                           = search_call.doc_type_filter[1]

\* C10: a search whose store access failed ends in an error (an exception
\* to the caller, and the "Unable to retrieve" context of _get_rag_context);
\* a search that returns an empty list for a positive limit had no matching
\* row.
C10_StoreFailureIsAnError ==
    /\ (search_pc = "done" /\ search_error = "store")
           => (/\ search_outcome = "raised"
               /\ search_call.op = "_get_rag_context"
                     => rag_context.says = "unable")
    /\ (/\ search_pc = "done"
        /\ search_outcome = "returned"
        /\ search_results = << >>
        /\ search_call.limit > 0)
           => MatchingRows = {}

\* The word counts of a list of chunks.
WordCounts(list) == [j \in DOMAIN list |-> list[j].words]

\* C12: in the list _chunk_text returned, each chunk starts strictly before
\* the next one in the source text, and the index the loop of embed_document
\* pairs with the j-th chunk (the chunk_index it stores) is j - 1.
C12_ChunksInSourceOrder ==
    chunk_pc = "done"
        => (/\ \A j \in 1..(Len(text_chunks) - 1) :
                  text_chunks[j].start < text_chunks[j + 1].start
            /\ Len(indexed) = Len(text_chunks)
            /\ \A j \in DOMAIN indexed :
                  /\ indexed[j].i = j - 1
                  /\ indexed[j].chunk = text_chunks[j])

\* A text was cut into three chunks or more.
C12_Witness ==
    /\ chunk_pc = "done"
    /\ chunk_outcome = "returned"
    /\ Len(text_chunks) >= 3

\* C13 (amended): a text of 1,200 words under the default configuration is
\* cut into three chunks of 500, 500 and 400 words: the windows start at
\* words 0, 400 and 800, and the last one holds the 400 words that remain.
C13_Example1200Words ==
    (/\ chunk_pc = "done"
     /\ source_text = 1200
     /\ chunk_config = DefaultChunkConfig)
        => WordCounts(text_chunks) = <<500, 500, 400>>

\* The 1,200-word text has been chunked under the default configuration.
C13_Witness ==
    /\ chunk_pc = "done"
    /\ source_text = 1200
    /\ chunk_config = DefaultChunkConfig
    /\ Len(text_chunks) = 3

\* C13 as stated: the three chunks have 500, 500 and 300 words.
C13_AsStated ==
    (/\ chunk_pc = "done"
     /\ source_text = 1200
     /\ chunk_config = DefaultChunkConfig)
        => WordCounts(text_chunks) = <<500, 500, 300>>

\* C20: every chunk _chunk_text returned has min_chunk_size words or more.
C20_EveryChunkHasMinWords ==
    (chunk_pc = "done" /\ source_text > 0)
        => \A j \in DOMAIN text_chunks :
               text_chunks[j].words >= chunk_config.min_chunk_size

\* The call of worker w has ended on a document without usable text.
NoUsableText(w) ==
    /\ pc[w] = "done"
    /\ DocChunks(doc[w]) = << >>
    /\ errors[w] = {}

\* The call of worker w has ended without an error and without a row: every
\* chunk of its document was stored before and skipped.
AllDeduplicated(w) ==
    /\ pc[w] = "done"
    /\ DocChunks(doc[w]) # << >>
    /\ AllChunksStored(doc[w], rows_before[w])
    /\ errors[w] = {}
    /\ embedded_count[w] = 0

\* C11: the value embed_document returns for a document without usable text
\* differs from the value it returns for a document whose chunks were all
\* skipped as duplicates.
C11_NoTextDiffersFromAllSkipped ==
    \A a, b \in Workers :
        (NoUsableText(a) /\ AllDeduplicated(b)) => result[a] # result[b]

\* The dedup gate of worker w finds the hash of its current chunk.
GateHit(w) ==
    /\ pc[w] = "select"
    /\ ~aborted[w]
    /\ SelectByHash(CurrentHash(w), rows, pending[w])

\* C19: in embed_document the embedding of a chunk is only reached from a
\* miss of the dedup gate, and a hit moves on to the next chunk with no
\* insert and no error; store_document_and_chunks puts no chunk into its
\* transaction whose text document_chunks already holds.
C19_DedupGateBeforeEmbedding ==
    [][/\ \A w \in Workers :
             /\ (pc'[w] = "encode" /\ pc[w] # "encode")
                    => (pc[w] = "select" /\ ~GateHit(w))
             /\ GateHit(w)
                    => (/\ pc'[w] \in {"select", "commit"}
                        /\ pending'[w] = pending[w]
                        /\ errors'[w] = errors[w]
                        /\ embedded_count'[w] = embedded_count[w])
       /\ \A i \in DOMAIN store_txn'.chunks :
             \A j \in DOMAIN document_chunks :
                 document_chunks[j].content # store_txn'.chunks[i].content]_vars

\* C14: on a translator that caches, a call that follows a call with the
\* same query and the same model whose provider request succeeded does not
\* invoke the provider and returns the text the first call returned.
C14_SecondExpandUsesCache ==
    \A i \in 1..(Len(hyde_log) - 1) :
        (/\ hyde_config.cache_responses
         /\ hyde_log[i].provider = "ok"
         /\ hyde_log[i + 1].query = hyde_log[i].query
         /\ hyde_log[i + 1].model = hyde_log[i].model)
            => (/\ hyde_log[i + 1].provider = "cached"
                /\ hyde_log[i + 1].outcome = "returned"
                /\ hyde_log[i + 1].text = hyde_log[i].text)

\* Two calls with the same query were made on a caching translator, the
\* first of which got its text from the provider.
C14_Witness ==
    /\ Len(hyde_log) >= 2
    /\ hyde_config.cache_responses
    /\ hyde_log[1].provider = "ok"
    /\ hyde_log[2].query = hyde_log[1].query
    /\ hyde_log[2].model = hyde_log[1].model
    /\ hyde_log[2].text = hyde_log[1].text

\* C15: a translator call whose provider request failed returns the query
\* unchanged when fallback_to_original is set; a search whose HyDE request
\* failed searches for the query itself, the failure is not what ends it,
\* and what it returns are rows scored against the embedding of the query.
C15_ProviderFailureFallsBack ==
    /\ \A i \in DOMAIN hyde_log :
          (hyde_log[i].provider = "failed" /\ hyde_config.fallback_to_original)
              => (/\ hyde_log[i].outcome = "returned"
                  /\ hyde_log[i].text = hyde_log[i].query)
    /\ (search_pc = "done" /\ search_hyde = "failed")
          => (/\ search_text = search_call.query
              /\ search_error \in {"none", "encode", "store"}
              /\ search_error = "none" => search_outcome = "returned"
              /\ \A k \in DOMAIN search_results :
                    \E i \in DOMAIN rows :
                        search_results[k] =
                            ResultOf(rows[i], encode(search_call.query)))

\* The provider failed in a translator call that falls back, and in a search
\* that went on to return rows.
C15_Witness ==
    /\ hyde_config.fallback_to_original
    /\ \E i \in DOMAIN hyde_log : hyde_log[i].provider = "failed"
    /\ search_pc = "done"
    /\ search_hyde = "failed"
    /\ search_results # << >>

\* The decision rule: over the pages inspected (the first three, or all of
\* fewer) the characters per page average below 100 and the images per page
\* above 0.
ScannedByRule(pages) ==
    LET n == IF Len(pages) < 3 THEN Len(pages) ELSE 3
    IN  /\ SumChars(pages, 1, n) < 100 * n
        /\ SumImages(pages, 1, n) > 0

\* C16: a classifier whose inspection did not raise answers scanned exactly
\* when the decision rule says so, for _is_scanned_pdf and for
\* detect_pdf_type.
C16_ScannedIffRule ==
    (/\ extract_pc = "done"
     /\ extract_call \in {"_is_scanned_pdf", "detect_pdf_type"}
     /\ ~extract_result.classifier.failed
     /\ Len(pdf_file.pages) > 0)
        => (extract_result.classifier.scanned <=> ScannedByRule(pdf_file.pages))

\* C17: a call that returned asked the classifier exactly when the native
\* text had at most 100 characters, and invoked OCR exactly when the
\* classifier then said scanned; it used OCR exactly when, on top of that,
\* the OCR extractor returned text; it then returns the stripped OCR text,
\* and otherwise the stripped native text; OCR is not invoked for a native
\* text of more than 100 characters.
C17_OcrUsedExactlyWhen ==
    (/\ extract_pc = "done"
     /\ extract_call = "_extract_text_from_pdf"
     /\ extract_result.outcome = "returned")
        => (/\ extract_result.classifier.asked
                <=> NativeLength(pdf_file.pages) <= 100
            /\ extract_result.ocr.invoked
                <=> (/\ extract_result.classifier.asked
                     /\ extract_result.classifier.scanned)
            /\ extract_result.ocr_used
                <=> (/\ NativeLength(pdf_file.pages) <= 100
                     /\ extract_result.classifier.asked
                     /\ extract_result.classifier.scanned
                     /\ extract_result.ocr.invoked
                     /\ extract_result.ocr.outcome = "returned"
                     /\ extract_result.ocr.text.chars > 0)
            /\ extract_result.ocr_used
                => extract_result.text
                       = Text("ocr", extract_result.ocr.text.chars, FALSE)
            /\ ~extract_result.ocr_used
                => extract_result.text
                       = Text("native", NativeLength(pdf_file.pages), FALSE)
            /\ NativeLength(pdf_file.pages) > 100 => ~extract_result.ocr.invoked)

\* OCR gave the text of a scanned PDF with some native characters.
C17_Witness ==
    /\ extract_pc = "done"
    /\ extract_call = "_extract_text_from_pdf"
    /\ extract_result.ocr_used
    /\ extract_result.text.chars > 0
    /\ NativeLength(pdf_file.pages) > 0

\* C18: when the OCR extractor was invoked and raised, or returned no text,
\* the call returns the stripped native text with ocr_used false.
C18_OcrFailureKeepsNativeText ==
    (/\ extract_pc = "done"
     /\ extract_call = "_extract_text_from_pdf"
     /\ extract_result.ocr.invoked
     /\ \/ extract_result.ocr.outcome = "raised"
        \/ extract_result.ocr.text.chars = 0)
        => (/\ extract_result.outcome = "returned"
            /\ extract_result.text
                   = Text("native", NativeLength(pdf_file.pages), FALSE)
            /\ ~extract_result.ocr_used)

\* Both backends were tried and failed on a PDF with some native text.
C18_Witness ==
    /\ extract_pc = "done"
    /\ extract_call = "_extract_text_from_pdf"
    /\ extract_result.ocr.outcome = "raised"
    /\ extract_result.ocr.tried = <<"ocrmypdf", "tesseract">>
    /\ extract_result.outcome = "returned"
    /\ extract_result.text.chars > 0

\* C22: a classifier whose inspection raised (the file cannot be opened, a
\* page cannot be read, there is no page) answers scanned, for
\* _is_scanned_pdf and for detect_pdf_type.
C22_InspectionErrorMeansScanned ==
    (/\ extract_pc = "done"
     /\ extract_call \in {"_is_scanned_pdf", "detect_pdf_type"}
     /\ extract_result.classifier.failed)
        => extract_result.classifier.scanned

\* The members of a sequence.
Range(seq) == {seq[i] : i \in DOMAIN seq}

\* The backends the deployment has.
AvailableBackends(env) ==
    (IF env.OCRMYPDF_AVAILABLE THEN {"ocrmypdf"} ELSE {})
    \cup (IF env.OCR_AVAILABLE THEN {"tesseract"} ELSE {})

\* The backends the deployment has and the configuration lets the extractor
\* use: none when OCR is disabled, ocrmypdf only when it is preferred.
EnabledBackends(env) ==
    IF ~env.use_ocr THEN {}
    ELSE (IF env.use_ocrmypdf /\ env.OCRMYPDF_AVAILABLE THEN {"ocrmypdf"}
          ELSE {})
         \cup (IF env.OCR_AVAILABLE THEN {"tesseract"} ELSE {})

\* The order of the backends in a run of the OCR extractor: ocrmypdf first
\* when it is enabled, tesseract next when ocrmypdf raised, no backend after
\* one that returned, and the returned text is that of the last one tried.
BackendOrder(env, ocr) ==
    /\ "ocrmypdf" \in EnabledBackends(env)
          => ocr.tried # << >> /\ ocr.tried[1] = "ocrmypdf"
    /\ ("ocrmypdf" \in Range(ocr.failed) /\ env.OCR_AVAILABLE)
          => ocr.tried = <<"ocrmypdf", "tesseract">>
    /\ \A i \in DOMAIN ocr.tried :
          i < Len(ocr.tried) => ocr.tried[i] \in Range(ocr.failed)
    /\ ocr.outcome = "returned"
          => ocr.tried # << >> /\ ocr.tried[Len(ocr.tried)] \notin Range(ocr.failed)

\* C23: an invoked OCR extractor keeps the order of the backends, and it
\* raises only when every backend that is available and enabled by the
\* configuration has raised (none of them, when there is none).
C23_BackendsInOrder ==
    (/\ extract_pc = "done"
     /\ extract_call = "_extract_text_from_pdf"
     /\ extract_result.ocr.invoked)
        => (/\ BackendOrder(ocr_env, extract_result.ocr)
            /\ extract_result.ocr.outcome = "raised"
                  => EnabledBackends(ocr_env)
                         \subseteq Range(extract_result.ocr.failed))

\* C23 as stated: the extractor raises only when every backend the
\* deployment has available has raised.
C23_AsStated ==
    (/\ extract_pc = "done"
     /\ extract_call = "_extract_text_from_pdf"
     /\ extract_result.ocr.invoked)
        => (/\ BackendOrder(ocr_env, extract_result.ocr)
            /\ extract_result.ocr.outcome = "raised"
                  => AvailableBackends(ocr_env)
                         \subseteq Range(extract_result.ocr.failed))

\* ocrmypdf raised and tesseract then gave the text.
C23_Witness ==
    /\ extract_pc = "done"
    /\ extract_call = "_extract_text_from_pdf"
    /\ extract_result.ocr.invoked
    /\ extract_result.ocr.failed = <<"ocrmypdf">>
    /\ extract_result.ocr.tried = <<"ocrmypdf", "tesseract">>
    /\ extract_result.ocr.outcome = "returned"
    /\ extract_result.ocr_used

\* The place in the table, in insertion order, of the row a result was made
\* from (no two rows of the table have the same content).
RowOf(res) ==
    CHOOSE i \in DOMAIN rows : ResultOf(rows[i], encode(search_text)) = res

\* C24: of two returned rows with the same similarity, the one inserted
\* earlier comes first, for search_documents and for the /query endpoint.
C24_TiesInInsertionOrder ==
    (/\ search_pc = "done"
     /\ search_call.op \in {"search_documents", "query_rag"}
     /\ search_error = "none")
        => \A i, j \in DOMAIN search_results :
              (/\ i < j
               /\ search_results[i].similarity = search_results[j].similarity)
                  => RowOf(search_results[i]) < RowOf(search_results[j])

\* C28: the sources process_query reports are the chunks of the context it
\* gave the language model: the same rows, in the same order, with the same
\* similarities.
C28_SourcesAreTheContext ==
    (/\ search_pc = "done"
     /\ search_call.op = "process_query"
     /\ response.guardrail_triggered = "none")
        => response.sources = Sources(rag_context.sources)

\* C26: when no retrieval call is in progress, no connection is checked out
\* of the pool.
C26_ConnectionsReturned ==
    search_pc = "done" => checked_out = 0

\* The words chunk k and chunk k + 1 have in common: those from the first
\* word of the later chunk to the last word of the earlier one.
SharedWords(k) ==
    text_chunks[k].start + text_chunks[k].words - text_chunks[k + 1].start

Suffix(s, n) ==
    IF n >= Len(s) THEN s ELSE SubSeq(s, Len(s) - n + 1, Len(s))

\* C21: no chunk of paragraph mode is longer than the character budget, and
\* the buffer after each flush begins with the last overlap characters of
\* the buffer flushed.
C21_ParagraphChunksWithinBudget ==
    paragraph_pc = "done"
        => (/\ \A k \in DOMAIN paragraph_chunks :
                  Len(paragraph_chunks[k]) <= paragraph_config.max_chunk
            /\ \A f \in DOMAIN flushes :
                  IsPrefix(Suffix(flushes[f].buffer, paragraph_config.overlap),
                           flushes[f].next))

\* min(len(plan.steps), max_steps)
StepBudget == IF Len(plan) < max_steps THEN Len(plan) ELSE max_steps

\* C29: every run of the graph reaches END, whatever the plan, the empty
\* plan included; no node indexes past the end of the plan, at most
\* min(len(plan.steps), max_steps) agents are executed, and step_index goes
\* up by exactly 1 after each executed step and at no other time.
C29_EveryRunReachesEnd ==
    /\ [](graph_error # "IndexError")
    /\ [](Len(executed) <= StepBudget)
    /\ [][/\ graph_node = "next" => step_index' = step_index + 1
          /\ (graph_node # "next" /\ graph_node # "planner")
                => step_index' = step_index
          /\ executed' # executed => graph_node' = "next"]_vars
    /\ <>(graph_node = "END")

\* C30: the k-th agent the execute node ran is the agent of the k-th step of
\* the plan, run at that step's step_index, and it is a key of the registry.
C30_ExecutesTheStepsAgent ==
    \A k \in DOMAIN executed :
        /\ executed[k].step_index = k - 1
        /\ k <= Len(plan)
        /\ executed[k].agent = plan[k]
        /\ executed[k].agent \in Registry

\* C25: the text a cache hit returns was generated by an earlier call with
\* exactly the query and the model of the hit.
C25_CacheKeyedByQueryAndModel ==
    \A j \in DOMAIN hyde_log :
        hyde_log[j].provider = "cached"
            => \E i \in 1..(j - 1) :
                  /\ hyde_log[i].provider = "ok"
                  /\ hyde_log[i].query = hyde_log[j].query
                  /\ hyde_log[i].model = hyde_log[j].model
                  /\ hyde_log[i].text = hyde_log[j].text

=============================================================================
